---- MODULE Spec2Model ----
(***************************************************************************)
(* Model of the Stage 3 decorator lowering pass of decorator-transformer.  *)
(*                                                                         *)
(* transform (lib.rs) runs: check_for_decorators, the traversal that calls *)
(* enter_class / exit_class on every class in document order               *)
(* (transformer.rs), Codegen, inject_static_blocks (string edits on the    *)
(* printed code) and the prepend of the runtime helper text.               *)
(*                                                                         *)
(* Printed code is a sequence of tokens.  Every character the string       *)
(* searches of lib.rs look for ("{", ")", ";", newline) is a token of its  *)
(* own, and so are the words they look for ("class ", "export",            *)
(* "constructor(", "super(").  A class name is a sequence of letter        *)
(* tokens, so that `class F` is a prefix of `class FB` as "class Foo" is   *)
(* a prefix of "class FooBar".  Offsets are 0-based as in Rust; None is -1.*)
(***************************************************************************)
EXTENDS Integers, Sequences, FiniteSets, TLC

VARIABLES
    pc,                             \* position inside transform
    options,                        \* the options argument of transform
    opts,                           \* TransformOptions parsed from it
    source_text,                    \* the source_text argument of transform
    parse_errors,                   \* parse_result.errors
    ret,                            \* what transform returns: Ok(map, errors) or Err(message)
    source,                         \* the parsed input program (kept unchanged)
    program,                        \* parse_result.program, mutated by the traversal
    idx,                            \* statement the traversal is at
    errors,                         \* DecoratorTransformer.errors
    in_decorated_class,             \* DecoratorTransformer.in_decorated_class
    helpers_injected,               \* DecoratorTransformer.helpers_injected
    classes_with_class_decorators,  \* DecoratorTransformer.classes_with_class_decorators
    transformations,                \* transformer.transformations (ClassTransformation records)
    rewritten,                      \* statements whose class transform_class_with_decorators rewrote
    code                            \* codegen_result.code / TransformResult.code

vars == <<pc, options, opts, source_text, parse_errors, ret, source, program, idx, errors,
          in_decorated_class, helpers_injected, classes_with_class_decorators,
          transformations, rewritten, code>>

\* the arguments of the call and what the parser made of them
inputs == <<options, source_text, parse_errors, source>>

\* Largest number of top-level statements of an input program.
MaxStmts == 2

None == -1

----------------------------------------------------------------------------
(* Sequences of tokens *)

Min(S) == CHOOSE x \in S : \A y \in S : x <= y

Max(S) == CHOOSE x \in S : \A y \in S : x >= y

RECURSIVE Flatten(_)
Flatten(ss) == IF ss = <<>> THEN <<>> ELSE Head(ss) \o Flatten(Tail(ss))

RECURSIVE Join(_, _)
\* slice.join(sep)
Join(ss, sep) ==
    IF ss = <<>> THEN <<>>
    ELSE IF Len(ss) = 1 THEN ss[1]
    ELSE ss[1] \o sep \o Join(Tail(ss), sep)

\* s[..n]
Take(s, n) == SubSeq(s, 1, n)

\* s[n..]
Drop(s, n) == SubSeq(s, n + 1, Len(s))

\* does pattern p occur in s at offset i
MatchAt(s, p, i) ==
    /\ i >= 0
    /\ i + Len(p) <= Len(s)
    /\ \A k \in 1..Len(p) : s[i + k] = p[k]

\* str::find: offset of the first occurrence of p in s, None if there is none
Find(s, p) ==
    LET I == {i \in 0..(Len(s) - Len(p)) : MatchAt(s, p, i)}
    IN  IF I = {} THEN None ELSE Min(I)

\* str::rfind: offset of the last occurrence of p in s
RFind(s, p) ==
    LET I == {i \in 0..(Len(s) - Len(p)) : MatchAt(s, p, i)}
    IN  IF I = {} THEN None ELSE Max(I)

\* first occurrence of p in s[from..], as an offset into s
FindFrom(s, p, from) ==
    LET r == Find(Drop(s, from), p)
    IN  IF r = None THEN None ELSE from + r

\* number of occurrences of p in s
Count(s, p) == Cardinality({i \in 0..(Len(s) - Len(p)) : MatchAt(s, p, i)})

Contains(s, p) == Find(s, p) # None

Whitespace == {" ", "\t", "\n"}

RECURSIVE TrimStart(_)
\* str::trim_start
TrimStart(s) ==
    IF s # <<>> /\ Head(s) \in Whitespace THEN TrimStart(Tail(s)) ELSE s

StartsWith(s, p) == MatchAt(s, p, 0)

----------------------------------------------------------------------------
(* lib.rs: the options string and the result of transform *)

\* the JSON tokens an options string is made of
JsonKeys == {"\"source_maps\"", "\"x\""}
JsonBools == {"true", "false"}
JsonValues == JsonBools \cup {"1", "\"yes\""}

\* the text between the braces of a JSON object is `key : value` groups separated by commas
JsonMembersOk(inner) ==
    \/ inner = <<>>
    \/ /\ (Len(inner) + 1) % 4 = 0
       /\ \A i \in 1..Len(inner) :
             CASE i % 4 = 1 -> inner[i] \in JsonKeys
               [] i % 4 = 2 -> inner[i] = ":"
               [] i % 4 = 3 -> inner[i] \in JsonValues
               [] OTHER     -> inner[i] = ","

IsJsonObject(s) ==
    /\ Len(s) >= 2
    /\ s[1] = "{"
    /\ s[Len(s)] = "}"
    /\ JsonMembersOk(SubSeq(s, 2, Len(s) - 1))

\* the values the object gives for a key, in the order written
JsonValuesOf(s, key) ==
    LET inner == SubSeq(s, 2, Len(s) - 1)
        at    == {i \in 1..Len(inner) : i % 4 = 1 /\ inner[i] = key}
    IN  {inner[i + 2] : i \in at}

JsonCountOf(s, key) ==
    LET inner == SubSeq(s, 2, Len(s) - 1)
    IN  Cardinality({i \in 1..Len(inner) : i % 4 = 1 /\ inner[i] = key})

TransformOptions(source_maps) == [source_maps |-> source_maps]

\* the default is false
default_true_wrong == FALSE

default_true == TRUE

NoReturn == [kind |-> "none"]
Ok(map, errs) == [kind |-> "ok", map |-> map, errors |-> errs]
Err(message) == [kind |-> "err", message |-> message]

\* serde_json::from_str::<TransformOptions>
from_str(s) ==
    IF ~IsJsonObject(s) THEN Err("Invalid options")
    ELSE IF JsonCountOf(s, "\"source_maps\"") > 1 THEN Err("Invalid options")
    ELSE IF JsonCountOf(s, "\"source_maps\"") = 0 THEN TransformOptions(default_true)
    ELSE LET v == CHOOSE x \in JsonValuesOf(s, "\"source_maps\"") : TRUE
         IN  IF v \in JsonBools THEN TransformOptions(v = "true") ELSE Err("Invalid options")

\* the empty string is handed to the JSON parser as well
parse_options_no_empty_case(s) == from_str(s)

parse_options(s) ==
    IF s = <<>> THEN TransformOptions(TRUE) ELSE from_str(s)

IsErr(r) == "kind" \in DOMAIN r

\* Option::None of the map, and the map Codegen may hand back
NoMap == "none"
CodegenMaps == {NoMap, "json"}

\* the code handed back is empty
parse_error_result_empty_code(text, errs) == [code |-> <<>>, ret |-> Ok(NoMap, errs)]

\* lib.rs: the result of transform when the parser reports errors
parse_error_result(text, errs) == [code |-> text, ret |-> Ok(NoMap, errs)]

\* TransformResult.map
ResultMap(o, codegen_map) == IF o.source_maps THEN codegen_map ELSE NoMap

----------------------------------------------------------------------------
(* The AST: decorator expressions, class elements, classes, statements *)

\* an identifier decorator `@d` and a call decorator `@f(a)`
DecId == [callee |-> "d", call |-> FALSE, args |-> <<>>]
DecCall == [callee |-> "f", call |-> TRUE, args |-> <<"a">>]

Key(t, name) == [t |-> t, name |-> name]

Elem(type, kind, static, key, decs, body) ==
    [type |-> type, kind |-> kind, static |-> static, key |-> key,
     decs |-> decs, body |-> body, descs |-> <<>>]

\* constructor body statements
SuperStmt == [t |-> "super", args |-> <<"g(", "x", ")">>]  \* super(g(x));
OtherStmt == [t |-> "other", args |-> <<>>]                \* log();
NestedSuperStmt == [t |-> "nested", args |-> <<>>]         \* if (c) { super(); }
GuardStmt == [t |-> "guard", args |-> <<>>]                \* if (_initProto) _initProto(this);
PlainSuperStmt == [t |-> "super", args |-> <<>>]           \* super();

Method(key, static, decs) == Elem("method", "method", static, key, decs, <<>>)
Field(key, static, decs) == Elem("property", "none", static, key, decs, <<>>)
Ctor(body) == Elem("method", "constructor", FALSE, Key("id", "constructor"), <<>>, body)
\* `@d constructor() { log(); }`
DecoratedCtor(decs, body) == Elem("method", "constructor", FALSE, Key("id", "constructor"), decs, body)
Getter(key, static, decs) == Elem("method", "get", static, key, decs, <<>>)
Setter(key, static, decs) == Elem("method", "set", static, key, decs, <<>>)
Accessor(key, static, decs) == Elem("accessor", "none", static, key, decs, <<>>)

Class(name, decs, super, body) ==
    [name |-> name, decs |-> decs, super |-> super, body |-> body]

NoClass == Class(<<>>, <<>>, FALSE, <<>>)

Stmt(form, class) == [form |-> form, class |-> class]

IsClassStmt(s) == s.form # "other"

----------------------------------------------------------------------------
(* transformer.rs: detection *)

KindField == 0
KindAccessor == 1
KindMethod == 2
KindGetter == 3
KindSetter == 4
KindClass == 5

StaticFlag == 8

ElementHasDecorators(e) ==
    /\ e.type \in {"method", "property", "accessor"}
    /\ e.decs # <<>>

\* every class counts as decorated
has_decorators_always(class) == TRUE

\* a class in any statement counts
statement_has_decorators_any_form(stmt) == stmt.form # "other" /\ stmt.class.body # <<>>

has_decorators(class) ==
    \/ class.decs # <<>>
    \/ \E i \in 1..Len(class.body) : ElementHasDecorators(class.body[i])

statement_has_decorators(stmt) ==
    /\ stmt.form \in {"class", "exportdefault", "export"}
    /\ has_decorators(stmt.class)

check_for_decorators(prog) ==
    \E i \in 1..Len(prog) : statement_has_decorators(prog[i])

\* the flag read is the one exit_class resets
needs_helpers_wrong_flag == in_decorated_class

needs_helpers == helpers_injected

----------------------------------------------------------------------------
(* transformer.rs: metadata collection *)

generate_expression_code(expr) ==
    LET printed == IF expr.call
                   THEN <<expr.callee, "(">>
                        \o Join([i \in 1..Len(expr.args) |-> <<expr.args[i]>>], <<",">>)
                        \o <<")">>
                   ELSE <<expr.callee>>
    IN  IF printed = <<>> THEN <<"decorator">> ELSE printed

extract_decorator_names(decorators) ==
    [i \in 1..Len(decorators) |-> generate_expression_code(decorators[i])]

collect_class_decorators(class) ==
    [i \in 1..Len(class.decs) |-> generate_expression_code(class.decs[i])]

\* the characters of a name: a leading `#` is a character of its own
Chars(name) == IF name = "#s" THEN <<"#", "s">> ELSE <<name>>

\* f64::to_string of the value of a numeric literal
F64ToString(raw) ==
    CASE raw = "0x10" -> "16"
      [] raw = "1.0"  -> "1"
      [] OTHER        -> raw

get_property_key_name(key) ==
    CASE key.t = "id"      -> Chars(key.name)
      [] key.t = "private" -> <<"#">> \o Chars(key.name)
      [] key.t = "string"  -> Chars(key.name)
      [] key.t = "number"  -> <<F64ToString(key.name)>>
      [] OTHER             -> <<"computed">>

ElementKindGetterAsMethod(e) ==
    CASE e.type = "method"   -> KindMethod
      [] e.type = "property" -> KindField
      [] OTHER               -> KindAccessor

ElementKind(e) ==
    CASE e.type = "method" /\ e.kind = "get" -> KindGetter
      [] e.type = "method" /\ e.kind = "set" -> KindSetter
      [] e.type = "method"                   -> KindMethod
      [] e.type = "property"                 -> KindField
      [] OTHER                               -> KindAccessor

ElementMetadata(e) ==
    [decorator_names |-> extract_decorator_names(e.decs),
     kind            |-> ElementKind(e),
     is_static       |-> e.static,
     is_private      |-> e.key.t = "private",
     key             |-> get_property_key_name(e.key)]

RECURSIVE collect_decorator_metadata_from(_)
collect_decorator_metadata_from(body) ==
    IF body = <<>> THEN <<>>
    ELSE (IF ElementHasDecorators(Head(body)) THEN <<ElementMetadata(Head(body))>> ELSE <<>>)
         \o collect_decorator_metadata_from(Tail(body))

collect_decorator_metadata(class) == collect_decorator_metadata_from(class.body)

----------------------------------------------------------------------------
(* transformer.rs: the static block and the constructor guard, as AST nodes *)

RECURSIVE BitOr(_, _)
\* a | b on u8
BitOr(a, b) ==
    IF a = 0 THEN b
    ELSE IF b = 0 THEN a
    ELSE (IF a % 2 = 1 \/ b % 2 = 1 THEN 1 ELSE 0) + 2 * BitOr(a \div 2, b \div 2)

\* the static bit is 16
FlagsStaticSixteen(meta) == BitOr(meta.kind, IF meta.is_static THEN 2 * StaticFlag ELSE 0) % 256

Flags(meta) == BitOr(meta.kind, IF meta.is_static THEN StaticFlag ELSE 0) % 256

\* the `#` of a private name is kept
DescriptorKeyKeepHash(meta) == meta.key

DescriptorKey(meta) == IF meta.is_private THEN Tail(meta.key) ELSE meta.key

MemberDescriptors(meta) ==
    [i \in 1..Len(meta.decorator_names) |->
        [dec   |-> meta.decorator_names[i],
         flags |-> Flags(meta),
         key   |-> DescriptorKey(meta),
         priv  |-> meta.is_private]]

\* the descriptors are pushed last member first
build_member_descriptor_array_reversed(metadata) ==
    Flatten([i \in 1..Len(metadata) |-> MemberDescriptors(metadata[Len(metadata) + 1 - i])])

build_member_descriptor_array(metadata) ==
    Flatten([i \in 1..Len(metadata) |-> MemberDescriptors(metadata[i])])

\* [targets] = _applyDecs(this, memberDesc, classDesc).property
build_apply_decs_assignment(target_names, member_desc_array, class_dec_array, property_name) ==
    [t         |-> "applydecs",
     args      |-> <<>>,
     targets   |-> target_names,
     arguments |-> <<"this", member_desc_array, class_dec_array>>,
     property  |-> property_name]

\* if (_initClass) _initClass();
build_init_class_if_statement == [t |-> "initclass", args |-> <<>>]

\* the class decorators are handed to the call of the static block
create_decorator_static_block_with_class_decorators(metadata, class_decorators) ==
    LET member_desc_array == build_member_descriptor_array(metadata)
        assignment_stmt   == build_apply_decs_assignment(<<"_initProto", "_initClass">>,
                                 member_desc_array, class_decorators, "e")
    IN  [type |-> "staticblock", kind |-> "none", static |-> TRUE, key |-> Key("id", "static"),
         decs |-> <<>>, body |-> <<assignment_stmt, build_init_class_if_statement>>,
         descs |-> member_desc_array]

create_decorator_static_block(metadata, class_decorators) ==
    LET member_desc_array     == build_member_descriptor_array(metadata)
        empty_class_dec_array == <<>>
        assignment_stmt       == build_apply_decs_assignment(<<"_initProto", "_initClass">>,
                                     member_desc_array, empty_class_dec_array, "e")
        init_class_call       == build_init_class_if_statement
    IN  [type |-> "staticblock", kind |-> "none", static |-> TRUE, key |-> Key("id", "static"),
         decs |-> <<>>, body |-> <<assignment_stmt, init_class_call>>,
         descs |-> member_desc_array]

IsPassStaticBlock(e) == e.type = "staticblock"

build_init_proto_if_statement == GuardStmt

IsSuperCallStatement(stmt) == stmt.t = "super"

find_super_call_insert_position(statements) ==
    LET I == {i \in 1..Len(statements) : IsSuperCallStatement(statements[i])}
    IN  IF I = {} THEN 0 ELSE Min(I)

InsertAt(s, pos, x) == Take(s, pos) \o <<x>> \o Drop(s, pos)

IsConstructor(e) == e.type = "method" /\ e.kind = "constructor"

\* the synthesized constructor never calls super
create_constructor_with_init_no_super(class) == Ctor(<<build_init_proto_if_statement>>)

create_constructor_with_init(class) ==
    Ctor((IF class.super THEN <<PlainSuperStmt>> ELSE <<>>)
         \o <<build_init_proto_if_statement>>)

ensure_constructor_with_init(class) ==
    LET I == {i \in 1..Len(class.body) : IsConstructor(class.body[i])}
    IN  IF I # {}
        THEN LET index  == Min(I)
                 method == class.body[index]
                 insert_pos == find_super_call_insert_position(method.body)
             IN  [class EXCEPT !.body[index].body =
                      InsertAt(method.body, insert_pos, build_init_proto_if_statement)]
        ELSE [class EXCEPT !.body = InsertAt(class.body, 0, create_constructor_with_init(class))]

NeedsInstanceInit(metadata) ==
    \E i \in 1..Len(metadata) :
        /\ ~metadata[i].is_static
        /\ metadata[i].kind \in {KindField, KindAccessor, KindMethod, KindGetter, KindSetter}

\* the decorators of method definitions are kept
ClearElementDecoratorsPropertiesOnly(e) ==
    IF e.type \in {"property", "accessor"} THEN [e EXCEPT !.decs = <<>>] ELSE e

ClearElementDecorators(e) ==
    IF e.type \in {"method", "property", "accessor"} THEN [e EXCEPT !.decs = <<>>] ELSE e

\* the class as transform_class_with_decorators leaves it when has_decorators holds
RewriteClass(class) ==
    LET metadata         == collect_decorator_metadata(class)
        class_decorators == collect_class_decorators(class)
        pushed == IF metadata # <<>> \/ class_decorators # <<>>
                  THEN LET c1 == [class EXCEPT !.body =
                                     Append(class.body,
                                            create_decorator_static_block(metadata, class_decorators))]
                       IN  IF NeedsInstanceInit(metadata)
                           THEN ensure_constructor_with_init(c1)
                           ELSE c1
                  ELSE class
    IN  [pushed EXCEPT !.decs = <<>>,
                       !.body = [i \in 1..Len(pushed.body) |-> ClearElementDecorators(pushed.body[i])]]

\* transform_class_with_decorators: what it returns, the class as it leaves it and
\* helpers_injected after the call
transform_class_with_decorators(class, helpers) ==
    IF ~has_decorators(class)
    THEN [changed |-> FALSE, class |-> class, helpers_injected |-> helpers]
    ELSE [changed |-> TRUE, class |-> RewriteClass(class), helpers_injected |-> TRUE]

----------------------------------------------------------------------------
(* transformer.rs: the static block as text, and the ClassTransformation record *)

Quoted(key) == <<"\"">> \o key \o <<"\"">>

BoolText(b) == IF b THEN "true" ELSE "false"

DescriptorText(name, flags, key, priv) ==
    <<"[">> \o name \o <<",", ToString(flags), ",">> \o Quoted(key)
            \o <<",", BoolText(priv), "]">>

ArrayText(items) == <<"[">> \o Join(items, <<",">>) \o <<"]">>

MetaDescriptorTexts(meta) ==
    [i \in 1..Len(meta.decorator_names) |->
        DescriptorText(meta.decorator_names[i], Flags(meta), DescriptorKey(meta), meta.is_private)]

InitClassCall == <<"if", "(", "_initClass", ")", "_initClass", "(", ")", ";">>

generate_static_block_code(metadata, class_decorators) ==
    LET member_desc_array ==
            ArrayText(Flatten([i \in 1..Len(metadata) |-> MetaDescriptorTexts(metadata[i])]))
        class_dec_array == ArrayText(class_decorators)
        call == <<"_applyDecs", "(", "this", ",">> \o member_desc_array \o <<",">>
                \o class_dec_array \o <<")">>
    IN  IF class_decorators = <<>>
        THEN <<"static_", "{", "[_initProto, _initClass] =">> \o call \o <<".e", ";">>
             \o InitClassCall \o <<"}">>
        ELSE <<"static_", "{", "let _classThis", ";", "[_classThis, _initClass] =">>
             \o call \o <<".c", ";">> \o InitClassCall \o <<"}">>

AnonymousClass == <<"AnonymousClass">>

\* one record per decorated class the traversal meets
ClassTransformation(class) ==
    LET metadata == collect_decorator_metadata(class)
    IN  [class_name          |-> IF class.name = <<>> THEN AnonymousClass ELSE class.name,
         static_block_code   |-> generate_static_block_code(metadata, collect_class_decorators(class)),
         needs_instance_init |-> NeedsInstanceInit(metadata)]

ClassDecoratorInfo(class) ==
    [class_name      |-> IF class.name = <<>> THEN <<"default">> ELSE class.name,
     decorator_names |-> collect_class_decorators(class)]

----------------------------------------------------------------------------
(* Codegen: the printed form of the AST *)

DecoratorText(expr) == <<"@">> \o generate_expression_code(expr) \o <<" ">>

DecoratorsText(decs) == Flatten([i \in 1..Len(decs) |-> DecoratorText(decs[i])])

KeyText(key) ==
    CASE key.t = "id"      -> <<key.name>>
      [] key.t = "private" -> <<"#", key.name>>
      [] key.t = "string"  -> Quoted(<<key.name>>)
      [] key.t = "number"  -> <<key.name>>
      [] OTHER             -> <<"[", key.name, "]">>

GuardText == <<"if", "(", "_initProto", ")", "_initProto", "(", "this", ")", ";">>

\* the destructuring target of the assignment
AssignmentTargetText(target_names) ==
    IF target_names = <<"_initProto", "_initClass">>
    THEN <<"[_initProto, _initClass] =">>
    ELSE <<"[">> \o Join([i \in 1..Len(target_names) |-> <<target_names[i]>>], <<",">>) \o <<"]", "=">>

ApplyDecsText(stmt) ==
    AssignmentTargetText(stmt.targets)
    \o <<"_applyDecs", "(", stmt.arguments[1], ",">>
    \o ArrayText([i \in 1..Len(stmt.arguments[2]) |->
           DescriptorText(stmt.arguments[2][i].dec, stmt.arguments[2][i].flags,
                          stmt.arguments[2][i].key, stmt.arguments[2][i].priv)])
    \o <<",">> \o ArrayText(stmt.arguments[3])
    \o <<")", IF stmt.property = "e" THEN ".e" ELSE ".c", ";">>

StatementText(stmt) ==
    CASE stmt.t = "super"     -> <<"super(">> \o stmt.args \o <<")", ";">>
      [] stmt.t = "nested"    -> <<"if", "(", "c", ")", "{", "\n", "super(", ")", ";", "\n", "}">>
      [] stmt.t = "guard"     -> GuardText
      [] stmt.t = "applydecs" -> ApplyDecsText(stmt)
      [] stmt.t = "initclass" -> InitClassCall
      [] OTHER                -> <<"log(", ")", ";">>

Lines(items) == Flatten([i \in 1..Len(items) |-> items[i] \o <<"\n">>])

BlockText(items) == IF items = <<>> THEN <<"{", "}">> ELSE <<"{", "\n">> \o Lines(items) \o <<"}">>

StaticBlockText(e) ==
    <<"static_">> \o BlockText([i \in 1..Len(e.body) |-> StatementText(e.body[i])])

ElementText(e) ==
    LET static == IF e.static THEN <<"static_">> ELSE <<>>
    IN  CASE e.type = "staticblock" -> StaticBlockText(e)
          [] IsConstructor(e) ->
                DecoratorsText(e.decs) \o <<"constructor(", ")">>
                \o BlockText([i \in 1..Len(e.body) |-> StatementText(e.body[i])])
          [] e.type = "method" ->
                DecoratorsText(e.decs) \o static
                \o (CASE e.kind = "get" -> <<"get_">> [] e.kind = "set" -> <<"set_">> [] OTHER -> <<>>)
                \o KeyText(e.key) \o <<"(", ")", "{", "}">>
          [] e.type = "property" ->
                DecoratorsText(e.decs) \o static \o KeyText(e.key) \o <<"=", "1", ";">>
          [] OTHER ->
                DecoratorsText(e.decs) \o static \o <<"accessor_">> \o KeyText(e.key) \o <<";">>

ClassText(class) ==
    DecoratorsText(class.decs) \o <<"class_">> \o class.name
    \o (IF class.super THEN <<"extends", "Base">> ELSE <<>>)
    \o BlockText([i \in 1..Len(class.body) |-> ElementText(class.body[i])])

TopStatementText(stmt) ==
    CASE stmt.form = "class"         -> ClassText(stmt.class) \o <<"\n">>
      [] stmt.form = "export"        -> <<"export_">> \o ClassText(stmt.class) \o <<"\n">>
      [] stmt.form = "exportdefault" -> <<"export_", "default_">> \o ClassText(stmt.class) \o <<"\n">>
      [] stmt.form = "var"           -> <<"const v =">> \o ClassText(stmt.class) \o <<";", "\n">>
      [] stmt.form = "block"         -> <<"{", "\n">> \o ClassText(stmt.class) \o <<"\n", "}", "\n">>
      [] OTHER                       -> <<"log(", ")", ";", "\n">>

Codegen(prog) == Flatten([i \in 1..Len(prog) |-> TopStatementText(prog[i])])

\* lib.rs generate_result: the printed program and the Ok result
generate_result(prog, o, errs, codegen_map) ==
    [code |-> Codegen(prog), ret |-> Ok(ResultMap(o, codegen_map), errs)]

----------------------------------------------------------------------------
(* lib.rs: edits of the printed code *)

HelperText == <<"function _applyDecs">>

generate_helper_functions == HelperText

VarDecl == <<"let _initProto, _initClass", ";", "\n">>

Formatting == <<"\n", " ", " ">>

formatting_offset == 3

InjectedGuard == <<"\n">> \o GuardText

InjectedConstructor == <<"\n", "constructor(", ")", "{">> \o InjectedGuard \o <<"\n", "}">>

Splice(s, pos, text) == Take(s, pos) \o text \o Drop(s, pos)

\* the declaration is put right before the `class` keyword, whatever precedes it
find_statement_start_class_pos(before_class, class_pos) == class_pos

find_statement_start(before_class, class_pos) ==
    LET nl           == RFind(before_class, <<"\n">>)
        line_start   == IF nl = None THEN 0 ELSE nl + 1
        line_content == Drop(before_class, line_start)
        trimmed      == TrimStart(line_content)
    IN  IF StartsWith(trimmed, <<"export_">>)
        THEN line_start + Find(line_content, <<"export_">>)
        ELSE class_pos

inject_constructor_init(text, class_body_start) ==
    LET ctor_pos == Find(Drop(text, class_body_start), <<"constructor(">>)
    IN  IF ctor_pos # None
        THEN LET ctor_start == class_body_start + ctor_pos
                 brace_pos  == Find(Drop(text, ctor_start), <<"{">>)
             IN  IF brace_pos = None THEN text
                 ELSE LET ctor_body_start == ctor_start + brace_pos + 1
                          super_pos == Find(Drop(text, ctor_body_start), <<"super(">>)
                      IN  IF super_pos # None
                          THEN LET super_start == ctor_body_start + super_pos
                                   search_from == super_start + Len(<<"super(">>)
                                   paren_pos   == Find(Drop(text, search_from), <<")">>)
                               IN  IF paren_pos = None THEN text
                                   ELSE LET call_end == search_from + paren_pos + 1
                                            semi_pos == Find(Drop(text, call_end), <<";">>)
                                            injection_point ==
                                                IF semi_pos # None THEN call_end + semi_pos + 1
                                                ELSE call_end
                                        IN  Splice(text, injection_point, InjectedGuard)
                          ELSE Splice(text, ctor_body_start, InjectedGuard)
        ELSE Splice(text, class_body_start, InjectedConstructor)

\* where the record's class and its body are found: <<class_start_pos, class_body_start>>
LocateClass(text, transformation) ==
    LET class_name_pattern == <<"class_">> \o transformation.class_name
        class_pos == Find(text, class_name_pattern)
    IN  IF class_pos # None
        THEN LET search_start == class_pos + Len(class_name_pattern)
                 brace == FindFrom(text, <<"{">>, search_start)
             IN  <<class_pos, IF brace = None THEN None ELSE brace + 1>>
        ELSE IF transformation.class_name = AnonymousClass
        THEN LET anon_class_pos == Find(text, <<"class_", "{">>)
             IN  <<anon_class_pos,
                   IF anon_class_pos = None THEN None ELSE anon_class_pos + Len(<<"class_", "{">>)>>
        ELSE <<None, None>>

\* the code after the declaration and the static block of one record were put in, and the
\* class_body_start that inject_constructor_init is then called with
StaticBlockInjected(text, transformation) ==
    LET loc == LocateClass(text, transformation)
    IN  IF loc[1] # None /\ loc[2] # None
        THEN LET class_pos         == loc[1]
                 injection_point   == loc[2]
                 var_injection_pos == find_statement_start(Take(text, class_pos), class_pos)
                 text1 == Splice(text, var_injection_pos, VarDecl)
                 adjusted_injection_point == injection_point + Len(VarDecl)
                 text2 == Splice(text1, adjusted_injection_point,
                                 Formatting \o transformation.static_block_code)
             IN  [found |-> TRUE, text |-> text2,
                  class_body_start |-> adjusted_injection_point
                                       + Len(transformation.static_block_code)
                                       + formatting_offset]
        ELSE [found |-> FALSE, text |-> text, class_body_start |-> None]

InjectOne(text, transformation) ==
    LET s == StaticBlockInjected(text, transformation)
    IN  IF s.found /\ transformation.needs_instance_init
        THEN inject_constructor_init(s.text, s.class_body_start)
        ELSE s.text

RECURSIVE inject_static_blocks(_, _)
inject_static_blocks(text, records) ==
    IF records = <<>> THEN text
    ELSE inject_static_blocks(InjectOne(text, Head(records)), Tail(records))

----------------------------------------------------------------------------
(* codegen.rs: the runtime helper _applyDecs(e, t, n, ...) the emitted code calls *)

RECURSIVE BitAnd(_, _)
\* a & b
BitAnd(a, b) ==
    IF a = 0 \/ b = 0 THEN 0
    ELSE (IF a % 2 = 1 /\ b % 2 = 1 THEN 1 ELSE 0) + 2 * BitAnd(a \div 2, b \div 2)

\* p(t, r): the descriptors a of n, in the order of n, with (8 & a[1]) == t and
\* !(7 & a[1]) == r; applyDec is called for each
MemberPass(n, t, r) ==
    SelectSeq(n, LAMBDA a : BitAnd(8, a.flags) = t /\ ((BitAnd(7, a.flags) = 0) = (r = 1)))

\* p(8,0), p(0,0), p(8,1), p(0,1)
MemberPasses(n) ==
    MemberPass(n, 8, 0) \o MemberPass(n, 0, 0) \o MemberPass(n, 8, 1) \o MemberPass(n, 0, 1)

Reverse(s) == [i \in 1..Len(s) |-> s[Len(s) + 1 - i]]

\* the kind and the static bit of a descriptor a: 7 & a[1] and 8 & a[1]
DescKind(a) == BitAnd(7, a.flags)
DescStatic(a) == BitAnd(8, a.flags) # 0

\* what applyDec pushes on the returned array for one descriptor: init and extra-init for a
\* field or an accessor (o<2), get and set spliced in before the last one for a private
\* accessor, the function itself for a private method, getter or setter
applyDecPushes(a) ==
    CASE DescKind(a) = KindField               -> <<"init", "initExtra">>
      [] DescKind(a) = KindAccessor /\ a.priv  -> <<"init", "get", "set", "initExtra">>
      [] DescKind(a) = KindAccessor /\ ~a.priv -> <<"init", "initExtra">>
      [] a.priv                                -> <<"fn">>
      [] OTHER                                 -> <<>>

\* y[+s][r]: applyDec throws "Decorating two elements with the same name" when a public
\* element that is no field comes after another one of the same name and placement, unless
\* the two are a getter and a setter
applyDecThrows(n) ==
    LET seq    == MemberPass(n, 8, 0) \o MemberPass(n, 0, 0)
        named  == {k \in 1..Len(seq) : ~seq[k].priv}
        stored(a) == IF DescKind(a) < 3 THEN 1 ELSE DescKind(a)
    IN  \E j, k \in named :
            /\ j < k
            /\ seq[j].key = seq[k].key
            /\ DescStatic(seq[j]) = DescStatic(seq[k])
            /\ {stored(seq[j]), DescKind(seq[k])} # {KindGetter, KindSetter}

\* the array _applyDecs returns as e: the pushes of applyDec in the order of the passes, then
\* l(u), the runner of the instance initializers, when a non-static method, getter or setter
\* was decorated, then l(s), the runner of the static ones, when a static one was
applyDecsE(n) ==
    LET seq == MemberPasses(n)
    IN  Flatten([k \in 1..Len(seq) |-> applyDecPushes(seq[k])])
        \o (IF \E k \in 1..Len(seq) : DescKind(seq[k]) >= 2 /\ ~DescStatic(seq[k])
            THEN <<"initProto">> ELSE <<>>)
        \o (IF \E k \in 1..Len(seq) : DescKind(seq[k]) >= 2 /\ DescStatic(seq[k])
            THEN <<"initStatic">> ELSE <<>>)

\* _applyDecs(e, t, n): t is read as the class decorators (v = t.length, and the getter c
\* hands [t] to applyDec with kind 5), n as the member descriptors.  `called` is the
\* decorators the call invokes, in order; the class decorators are invoked, last one first,
\* when c is read.
applyDecs(e, t, n) ==
    [classDecs  |-> t,
     memberDecs |-> n,
     called     |-> [i \in 1..Len(MemberPasses(n)) |-> MemberPasses(n)[i].dec],
     calledByC  |-> Reverse(t),
     e          |-> applyDecsE(n),
     throws     |-> applyDecThrows(n)]

\* the call of a statement built by build_apply_decs_assignment, as the runtime runs it
RunApplyDecs(stmt) ==
    LET r == applyDecs(stmt.arguments[1], stmt.arguments[2], stmt.arguments[3])
    IN  [r EXCEPT !.called = IF stmt.property = "c" THEN r.called \o r.calledByC ELSE r.called]

----------------------------------------------------------------------------
(* Evaluation of the emitted module *)

\* the statements whose class assigns the binding `_initProto` of the module when it is
\* evaluated: the static block of every rewritten class declaration assigns the identifier
\* _initProto, declared by `let _initProto, _initClass;` in front of the statement
AssignsInitProto(prog, done) ==
    {j \in done : prog[j].form \in {"class", "export", "exportdefault"}}

\* the class whose static block made the last assignment to _initProto when the statements
\* 1..k of the module have been evaluated
InitProtoOwnerAfter(prog, done, k) ==
    LET W == {j \in AssignsInitProto(prog, done) : j <= k}
    IN  IF W = {} THEN None ELSE Max(W)

----------------------------------------------------------------------------
(* Input programs *)

NameF == <<"F">>
NameFB == <<"F", "B">>
NameG == <<"G">>
Anonymous == <<>>

KeyM == Key("id", "m")
KeyS == Key("id", "s")
KeyX == Key("id", "x")

KeyPrivate == Key("private", "p")
KeyString == Key("string", "k")
KeyHashString == Key("string", "#s")
KeyNumber == Key("number", "0x10")
KeyComputed == Key("computed", "e")

DecoratedField == Field(KeyX, FALSE, <<DecId>>)

BodyPlain == <<Method(KeyM, FALSE, <<>>)>>
BodyMethod == <<Method(KeyM, FALSE, <<DecId>>)>>
BodyStatic == <<Method(KeyS, TRUE, <<DecCall>>)>>
BodyStaticCtor == <<Method(KeyS, TRUE, <<DecCall>>), Ctor(<<OtherStmt>>)>>
BodyField == <<DecoratedField>>
BodyFieldCtor == <<DecoratedField, Ctor(<<OtherStmt>>)>>
BodyFieldSuperCtor == <<DecoratedField, Ctor(<<SuperStmt, OtherStmt>>)>>
BodyFieldLateSuper == <<Ctor(<<OtherStmt, SuperStmt>>), DecoratedField>>
BodyFieldNestedSuper == <<DecoratedField, Ctor(<<NestedSuperStmt, OtherStmt>>)>>
BodyDecoratedCtor == <<DecoratedCtor(<<DecId>>, <<OtherStmt>>)>>
\* every kind of member and of key; one member undecorated, one with two decorators
BodyKinds ==
    << Getter(KeyPrivate, TRUE, <<DecId>>),
       Setter(KeyString, FALSE, <<DecCall>>),
       Accessor(KeyNumber, TRUE, <<DecId>>),
       Field(KeyComputed, FALSE, <<DecId>>),
       Method(KeyM, FALSE, <<>>),
       Method(KeyS, TRUE, <<DecId, DecCall>>),
       Method(KeyHashString, FALSE, <<DecCall>>),
       Field(KeyX, TRUE, <<DecId>>) >>

Statements ==
    { Stmt("other", NoClass),
      Stmt("class", Class(NameF, <<>>, FALSE, BodyPlain)),
      \* class decorators only
      Stmt("class", Class(NameG, <<DecCall>>, FALSE, <<>>)),
      Stmt("export", Class(NameG, <<DecCall>>, FALSE, BodyPlain)),
      Stmt("exportdefault", Class(NameG, <<DecCall>>, TRUE, <<>>)),
      Stmt("exportdefault", Class(Anonymous, <<DecCall>>, FALSE, <<>>)),
      Stmt("exportdefault", Class(Anonymous, <<DecCall>>, TRUE, <<>>)),
      Stmt("var", Class(Anonymous, <<DecId>>, FALSE, <<>>)),
      \* a decorated method
      Stmt("class", Class(NameF, <<>>, FALSE, BodyMethod)),
      Stmt("class", Class(NameFB, <<>>, FALSE, BodyMethod)),
      Stmt("export", Class(NameF, <<>>, FALSE, BodyMethod)),
      Stmt("var", Class(NameF, <<>>, FALSE, BodyMethod)),
      \* only static members decorated
      Stmt("class", Class(NameG, <<>>, FALSE, BodyStatic)),
      Stmt("class", Class(NameFB, <<>>, FALSE, BodyStaticCtor)),
      \* a decorated field, with and without a constructor
      Stmt("class", Class(NameF, <<>>, FALSE, BodyFieldCtor)),
      Stmt("exportdefault", Class(NameFB, <<>>, FALSE, BodyFieldCtor)),
      Stmt("class", Class(NameG, <<>>, TRUE, BodyFieldSuperCtor)),
      Stmt("class", Class(NameF, <<>>, TRUE, BodyFieldLateSuper)),
      Stmt("class", Class(NameG, <<>>, TRUE, BodyFieldNestedSuper)),
      Stmt("class", Class(NameFB, <<>>, TRUE, BodyField)),
      Stmt("var", Class(Anonymous, <<>>, FALSE, BodyField)),
      Stmt("export", Class(NameFB, <<DecId>>, FALSE, BodyField)),
      \* members of every kind, and two class decorators
      Stmt("class", Class(NameG, <<DecId, DecCall>>, FALSE, BodyKinds)),
      \* a class declaration below the top level: `{ class FB { @d m() {} } }`
      Stmt("block", Class(NameFB, <<>>, FALSE, BodyMethod)),
      \* a decorator on the constructor
      Stmt("class", Class(NameG, <<>>, FALSE, BodyDecoratedCtor)) }

DeclaresName(s) == s.form \in {"class", "export", "exportdefault"} /\ s.class.name # Anonymous

\* a program the parser accepts: no name declared twice, one default export at most
ValidProgram(p) ==
    /\ \A i, j \in 1..Len(p) :
          i # j /\ DeclaresName(p[i]) /\ DeclaresName(p[j]) => p[i].class.name # p[j].class.name
    /\ \A i, j \in 1..Len(p) :
          p[i].form = "exportdefault" /\ p[j].form = "exportdefault" => i = j

Programs ==
    UNION {{p \in [1..n -> Statements] : ValidProgram(p)} : n \in 1..MaxStmts}

HasDecoratedConstructor(class) ==
    \E m \in 1..Len(class.body) : IsConstructor(class.body[m]) /\ class.body[m].decs # <<>>

\* parse_result.errors for the text of a program.  The parser is not part of the crate:
\* a decorator on a constructor is either accepted or reported by it.
ParserErrors(p) ==
    IF \E i \in 1..Len(p) : HasDecoratedConstructor(p[i].class)
    THEN {<<>>, <<"Decorators are not valid here">>}
    ELSE {<<>>}

\* options strings: "", {}, {"x":1,"source_maps":false}, text that is no JSON, and an
\* object whose source_maps is no boolean
OptionStrings ==
    { <<>>,
      <<"{", "}">>,
      <<"{", "\"x\"", ":", "1", ",", "\"source_maps\"", ":", "false", "}">>,
      <<"not json">>,
      <<"{", "\"source_maps\"", ":", "\"yes\"", "}">> }

\* source texts the parser reports errors for: `class F {` and `@d class {`
BadTexts == { <<"class_", "F", "{">>, <<"@", "d", " ", "class_", "{">> }

NoOptions == [kind |-> "unset"]

----------------------------------------------------------------------------
(* transform *)

\* transform is called: either the text of a program the parser accepts, or a text it rejects
Init ==
    /\ pc = "options"
    /\ options \in OptionStrings
    /\ opts = NoOptions
    /\ ret = NoReturn
    /\ \/ /\ source \in Programs
          /\ source_text = Codegen(source)
          /\ parse_errors \in ParserErrors(source)
       \/ /\ source = <<>>
          /\ source_text \in BadTexts
          /\ parse_errors = <<"Unexpected token">>
    /\ program = <<>>
    /\ idx = 0
    /\ errors = <<>>
    /\ in_decorated_class = FALSE
    /\ helpers_injected = FALSE
    /\ classes_with_class_decorators = <<>>
    /\ transformations = <<>>
    /\ rewritten = {}
    /\ code = <<>>

\* lib.rs: parse_options(&options)?
ParseOptions ==
    /\ pc = "options"
    /\ LET r == parse_options(options)
       IN  IF IsErr(r)
           THEN /\ ret' = r
                /\ pc' = "done"
                /\ UNCHANGED opts
           ELSE /\ opts' = r
                /\ pc' = "parse"
                /\ UNCHANGED ret
    /\ UNCHANGED <<inputs, program, idx, errors, in_decorated_class, helpers_injected,
                   classes_with_class_decorators, transformations, rewritten, code>>

\* lib.rs: parser.parse() and the return on parse errors
Parse ==
    /\ pc = "parse"
    /\ IF parse_errors # <<>>
       THEN /\ code' = parse_error_result(source_text, parse_errors).code
            /\ ret' = parse_error_result(source_text, parse_errors).ret
            /\ pc' = "done"
            /\ UNCHANGED program
       ELSE /\ program' = source
            /\ pc' = "start"
            /\ UNCHANGED <<code, ret>>
    /\ UNCHANGED <<inputs, opts, idx, errors, in_decorated_class, helpers_injected,
                   classes_with_class_decorators, transformations, rewritten>>

\* lib.rs: check_for_decorators is false, generate_result prints the program as parsed
ReturnUnchanged ==
    /\ pc = "start"
    /\ ~check_for_decorators(program)
    /\ \E codegen_map \in CodegenMaps :
          LET r == generate_result(program, opts, <<>>, codegen_map)
          IN  code' = r.code /\ ret' = r.ret
    /\ pc' = "done"
    /\ UNCHANGED <<inputs, opts, program, idx, errors, in_decorated_class, helpers_injected,
                   classes_with_class_decorators, transformations, rewritten>>

\* lib.rs: check_for_decorators is true, traverse_mut starts
BeginTraverse ==
    /\ pc = "start"
    /\ check_for_decorators(program)
    /\ pc' = "traverse"
    /\ idx' = 1
    /\ UNCHANGED <<inputs, opts, ret, program, errors, in_decorated_class, helpers_injected,
                   classes_with_class_decorators, transformations, rewritten, code>>

\* Traverse::enter_class, that is transform_class_with_decorators
EnterClass ==
    /\ pc = "traverse"
    /\ idx <= Len(program)
    /\ IsClassStmt(program[idx])
    /\ LET class == program[idx].class
           r     == transform_class_with_decorators(class, helpers_injected)
       IN  /\ program' = [program EXCEPT ![idx].class = r.class]
           /\ helpers_injected' = r.helpers_injected
           /\ IF ~r.changed
              THEN UNCHANGED <<in_decorated_class, classes_with_class_decorators,
                               transformations, rewritten>>
              ELSE /\ in_decorated_class' = TRUE
                   /\ classes_with_class_decorators' =
                          IF collect_class_decorators(class) # <<>>
                          THEN Append(classes_with_class_decorators, ClassDecoratorInfo(class))
                          ELSE classes_with_class_decorators
                   /\ transformations' = Append(transformations, ClassTransformation(class))
                   /\ rewritten' = rewritten \cup {idx}
    /\ pc' = "inclass"
    /\ UNCHANGED <<inputs, opts, ret, idx, errors, code>>

\* Traverse::exit_class
ExitClass ==
    /\ pc = "inclass"
    /\ in_decorated_class' = FALSE
    /\ idx' = idx + 1
    /\ pc' = "traverse"
    /\ UNCHANGED <<inputs, opts, ret, program, errors, helpers_injected, classes_with_class_decorators,
                   transformations, rewritten, code>>

\* the traversal passes a statement that holds no class
VisitOther ==
    /\ pc = "traverse"
    /\ idx <= Len(program)
    /\ ~IsClassStmt(program[idx])
    /\ idx' = idx + 1
    /\ UNCHANGED <<pc, inputs, opts, ret, program, errors, in_decorated_class, helpers_injected,
                   classes_with_class_decorators, transformations, rewritten, code>>

\* lib.rs: Codegen::new().build(&parse_result.program)
BuildCode ==
    /\ pc = "traverse"
    /\ idx > Len(program)
    /\ code' = Codegen(program)
    /\ pc' = "codegen"
    /\ UNCHANGED <<inputs, opts, ret, program, idx, errors, in_decorated_class, helpers_injected,
                   classes_with_class_decorators, transformations, rewritten>>

\* lib.rs: inject_static_blocks(&mut codegen_result.code, &transformations)
InjectStaticBlocks ==
    /\ pc = "codegen"
    /\ code' = inject_static_blocks(code, transformations)
    /\ pc' = "inject"
    /\ UNCHANGED <<inputs, opts, ret, program, idx, errors, in_decorated_class, helpers_injected,
                   classes_with_class_decorators, transformations, rewritten>>

\* lib.rs: the helper prepend and the Ok(TransformResult)
Finish ==
    /\ pc = "inject"
    /\ code' = IF needs_helpers
               THEN generate_helper_functions \o <<"\n">> \o code
               ELSE code
    /\ \E codegen_map \in CodegenMaps : ret' = Ok(ResultMap(opts, codegen_map), errors)
    /\ pc' = "done"
    /\ UNCHANGED <<inputs, opts, program, idx, errors, in_decorated_class, helpers_injected,
                   classes_with_class_decorators, transformations, rewritten>>

Next ==
    \/ ParseOptions
    \/ Parse
    \/ ReturnUnchanged
    \/ BeginTraverse
    \/ EnterClass
    \/ ExitClass
    \/ VisitOther
    \/ BuildCode
    \/ InjectStaticBlocks
    \/ Finish

Spec == Init /\ [][Next]_vars

\* transform has returned
Returned == pc = "done"

\* transform has returned the code of a program that parsed
Done == Returned /\ ret.kind = "ok" /\ parse_errors = <<>>

TypeOK ==
    /\ pc \in {"options", "parse", "start", "traverse", "inclass", "codegen", "inject", "done"}
    /\ options \in OptionStrings
    /\ ret.kind \in {"none", "ok", "err"}
    /\ parse_errors = <<>> => source \in Programs
    /\ pc \notin {"options", "parse", "done"} => Len(program) = Len(source)
    /\ idx \in 0..(Len(source) + 1)
    /\ rewritten \subseteq 1..Len(source)

----------------------------------------------------------------------------
(* Reading the emitted code *)

LetToken == <<"let _initProto, _initClass">>

StaticBlockOpen == <<"static_", "{">>

\* braces open after the token at index i
DepthAt(text, i) ==
    Cardinality({j \in 1..i : text[j] = "{"}) - Cardinality({j \in 1..i : text[j] = "}"})

\* index of the "}" that closes the "{" at index open
CloseOf(text, open) ==
    LET J == {j \in (open + 1)..Len(text) :
                 text[j] = "}" /\ DepthAt(text, j) = DepthAt(text, open) - 1}
    IN  IF J = {} THEN Len(text) ELSE Min(J)

Offsets(text, p) == {i \in 0..(Len(text) - Len(p)) : MatchAt(text, p, i)}

\* offset of the k-th occurrence of p in text
NthOffset(text, p, k) ==
    CHOOSE o \in Offsets(text, p) : Cardinality({q \in Offsets(text, p) : q <= o}) = k

\* the statements of the source that hold a class, up to statement i
ClassOrdinal(i) == Cardinality({j \in 1..i : IsClassStmt(source[j])})

\* the printed class of statement i: from its `class` keyword to the brace closing its body
ClassRegion(text, i) ==
    LET start == NthOffset(text, <<"class_">>, ClassOrdinal(i))
        open  == FindFrom(text, <<"{">>, start)
        close == CloseOf(text, open + 1)
    IN  SubSeq(text, start + 1, close)

\* the text between the brace closing the first static block of a region and the region's end
AfterFirstStaticBlock(region) ==
    LET sb    == Find(region, StaticBlockOpen)
        close == CloseOf(region, sb + 2)
    IN  SelectSeq(Drop(region, close), LAMBDA t : t \notin Whitespace)

SourceDecorators(class) ==
    {class.decs[k] : k \in 1..Len(class.decs)}
    \cup UNION {{class.body[m].decs[k] : k \in 1..Len(class.body[m].decs)} : m \in 1..Len(class.body)}

HasDecoratedInstanceMember(class) ==
    \E m \in 1..Len(class.body) : ElementHasDecorators(class.body[m]) /\ ~class.body[m].static

\* the emitted code without the runtime helper text in front of it
Body == IF StartsWith(code, HelperText) THEN Drop(code, Len(HelperText) + 1) ELSE code

FirstRewritten == Min(rewritten)

----------------------------------------------------------------------------
(* The claims *)

\* C1: after transform no class and no class element of the output carries a decorator,
\* for class declarations, exported classes and class expressions nested in other statements.
C1_NoDecoratorRemains == Done => ~Contains(code, <<"@">>)

\* C2: the runtime helper text appears exactly once, at the very start of the output, when
\* at least one class was rewritten, and zero times when no class was rewritten.
C2_HelperOnceIffRewritten ==
    Done => IF rewritten # {}
            THEN Count(code, HelperText) = 1 /\ StartsWith(code, HelperText)
            ELSE Count(code, HelperText) = 0

C2_Witness == Done /\ Cardinality(rewritten) = 2 /\ StartsWith(code, HelperText)

\* C3: `let _initProto, _initClass` appears exactly once when N >= 1 classes are rewritten
\* (N >= 2 included) and zero times when N = 0.
C3_LetOncePerModule ==
    Done => Count(code, LetToken) = (IF rewritten # {} THEN 1 ELSE 0)

\* C4: the declaration is its own statement immediately before the enclosing top-level
\* statement of the first rewritten class, whatever statement form holds the class: the code
\* in front of it is exactly the statements that precede that statement.
C4_LetBeforeEnclosingStatement ==
    Done /\ rewritten # {} =>
        LET p == Find(Body, LetToken)
        IN  /\ p # None
            /\ Take(Body, p) = Codegen(SubSeq(source, 1, FirstRewritten - 1))

IsDecoratedExport(s) ==
    s.form \in {"export", "exportdefault"} /\ has_decorators(s.class)

ExportHeader(s) ==
    (IF s.form = "export" THEN <<"export_">> ELSE <<"export_", "default_">>)
    \o <<"class_">> \o s.class.name \o (IF s.class.super THEN <<"extends">> ELSE <<"{">>)

InvalidExports ==
    { <<"export_">> \o LetToken, <<"export_", "default_">> \o LetToken,
      <<"export_", "var">>, <<"export_", "default_", "var">> }

\* C5: a decorated `export class X` or `export default class X` is still exported under the
\* same name (as the default) by the emitted code, which never holds `export let`,
\* `export var`, `export default let` or `export default var`.
C5_ExportPreserved ==
    Done =>
        /\ \A i \in 1..Len(source) :
              IsDecoratedExport(source[i]) => Contains(code, ExportHeader(source[i]))
        /\ \A bad \in InvalidExports : ~Contains(code, bad)

C5_Witness ==
    /\ Done
    /\ \E i \in rewritten : source[i].form = "export"
    /\ \E i \in rewritten : source[i].form = "exportdefault"
    /\ Contains(code, VarDecl \o <<"export_", "class_">>)
    /\ Contains(code, VarDecl \o <<"export_", "default_", "class_">>)

BindingName(class) == IF class.name = Anonymous THEN <<"_default">> ELSE class.name

LiftText(class) ==
    BindingName(class) \o <<"=", "_applyDecs", "(">> \o BindingName(class)
    \o <<",", "[", "]", ",">> \o ArrayText(collect_class_decorators(class))
    \o <<")", ".c[0]", ";">>

\* C6: every class with class decorators is rewritten into the class-binding lift
\* `let C = class C {...}; C = _applyDecs(C, [], [decs...]).c[0];`, followed by the export of
\* C when the class was exported, so that class decorators are applied outside the class body.
C6_ClassBindingLift ==
    Done =>
        \A i \in rewritten :
            source[i].class.decs # <<>> =>
                /\ Contains(code, <<"let">> \o BindingName(source[i].class) \o <<"=", "class_">>)
                /\ Contains(code, LiftText(source[i].class))

\* C7: every decorator expression of a rewritten class or of its members, with its call
\* arguments, appears in the emitted code as a decorator value; none is dropped.
C7_NoDecoratorDropped ==
    Done =>
        \A i \in rewritten :
            \A e \in SourceDecorators(source[i].class) :
                \E o \in Offsets(code, generate_expression_code(e)) :
                    o > 0 /\ code[o] \in {"[", ","}

\* C8: every rewritten class body holds exactly one static block produced by the pass, and
\* that block is the last element of the class body.
C8_OneStaticBlockLast ==
    Done =>
        \A i \in rewritten :
            LET region == ClassRegion(code, i)
            IN  /\ Count(region, StaticBlockOpen) = 1
                /\ AfterFirstStaticBlock(region) = <<"}">>

\* C9: a class with a decorated non-static member has, after the pass, exactly one
\* constructor and exactly one `if (_initProto) _initProto(this);` guard in it.
C9_OneConstructorOneGuard ==
    Done =>
        \A i \in rewritten :
            HasDecoratedInstanceMember(source[i].class) =>
                LET region == ClassRegion(code, i)
                IN  /\ Count(region, <<"constructor(">>) = 1
                    /\ Count(region, GuardText) = 1

\* C10: in a rewritten constructor of a class that extends a superclass, every inserted
\* `_initProto(this)` call comes after the constructor's `super(...)` call, wherever that
\* call is in the constructor body.
C10_InitAfterSuper ==
    Done =>
        \A i \in rewritten :
            source[i].class.super =>
                LET region == ClassRegion(code, i)
                    sup    == Find(region, <<"super(">>)
                IN  sup # None => \A g \in Offsets(region, GuardText) : g > sup

NoDecoratorIn(prog) ==
    \A i \in 1..Len(prog) : SourceDecorators(prog[i].class) = {}

\* C11: when the program holds no decorator, transform rewrites nothing: the program is left
\* as parsed, no static block, constructor, `let _initProto, _initClass` declaration or
\* runtime helper is added to the output, and the errors list is empty.
C11_NoDecoratorNoRewrite ==
    Done /\ NoDecoratorIn(source) =>
        /\ program = source
        /\ rewritten = {}
        /\ code = Codegen(source)
        /\ Count(code, StaticBlockOpen) = 0
        /\ Count(code, <<"constructor(">>) = Count(source_text, <<"constructor(">>)
        /\ ~Contains(code, LetToken)
        /\ ~Contains(code, HelperText)
        /\ ret.errors = <<>>

C11_Witness ==
    /\ Done
    /\ NoDecoratorIn(source)
    /\ \E i \in 1..Len(source) : IsClassStmt(source[i])
    /\ Contains(code, <<"class_">>)
    /\ code = source_text

\* what the result of a source text with parse errors is to be
ParseErrorResult ==
    /\ ret.kind = "ok"
    /\ code = source_text
    /\ ret.map = NoMap
    /\ ret.errors # <<>>
    /\ program = <<>>
    /\ rewritten = {}
    /\ transformations = <<>>

\* C12: for any options string, when the parser reports an error transform returns a
\* success result with the source text unchanged as code, no map and a non-empty errors
\* list, rewrites nothing, and never returns an error.
C12_ParseErrorAnyOptions ==
    Returned /\ parse_errors # <<>> => ParseErrorResult

\* C12, amended: the same for every options string that parse_options accepts; an options
\* string it rejects makes transform return the error before the source is parsed.
C12_ParseErrorValidOptions ==
    Returned /\ parse_errors # <<>> =>
        IF IsErr(parse_options(options)) THEN ret.kind = "err" ELSE ParseErrorResult

C12_Witness ==
    /\ Returned
    /\ parse_errors # <<>>
    /\ options # <<>>
    /\ ret.kind = "ok"
    /\ Contains(source_text, <<"@">>)
    /\ code = source_text

\* the options string, read as written
HasKey(s, key) == \E i \in 1..Len(s) : s[i] = key

DeclaresFalse(s) ==
    \E i \in 1..(Len(s) - 2) : s[i] = "\"source_maps\"" /\ s[i + 1] = ":" /\ s[i + 2] = "false"

\* C13: source_maps is true when the key is absent from the options (the empty string and
\* `{}` included), unknown keys are ignored, and whenever source_maps is false the map of
\* the result is absent, on every return path.
C13_OptionsSourceMaps ==
    /\ opts # NoOptions =>
          /\ ~HasKey(options, "\"source_maps\"") => opts.source_maps = TRUE
          /\ DeclaresFalse(options) => opts.source_maps = FALSE
    /\ Returned /\ HasKey(options, "\"x\"") => ret.kind = "ok"
    /\ Returned /\ ret.kind = "ok" /\ opts.source_maps = FALSE => ret.map = NoMap

C13_Witness ==
    /\ Returned
    /\ HasKey(options, "\"x\"")
    /\ DeclaresFalse(options)
    /\ opts.source_maps = FALSE
    /\ rewritten # {}
    /\ ret.map = NoMap

\* the static block transform_class_with_decorators pushed into the class of statement i
PassStaticBlock(i) ==
    LET body == program[i].class.body
    IN  body[CHOOSE k \in 1..Len(body) : IsPassStaticBlock(body[k])]

\* the member descriptors the pass emits for the class of statement i
EmittedDescriptors(i) == PassStaticBlock(i).body[1].arguments[2]

\* C14: the runtime _applyDecs reads its second argument as the member descriptors and its
\* third as the class decorators, which is the order the pass emits, so every member
\* descriptor the pass emits is processed by the runtime as a member descriptor.
C14_RuntimeArgumentOrder ==
    Done =>
        \A i \in rewritten :
            LET run == RunApplyDecs(PassStaticBlock(i).body[1])
            IN  /\ run.memberDecs = EmittedDescriptors(i)
                /\ run.classDecs = <<>>

\* the decorated members of the class of statement i as written, once per decorator, in
\* source order: the member and the decorator
SourceTuples(i) ==
    LET body == source[i].class.body
    IN  Flatten([m \in 1..Len(body) |->
                    IF body[m].type \in {"method", "property", "accessor"}
                    THEN [k \in 1..Len(body[m].decs) |-> [elem |-> body[m], dec |-> body[m].decs[k]]]
                    ELSE <<>>])

\* the kind a class element has by the table of the specification; the table has no kind
\* for a constructor
TableKind(e) ==
    CASE e.type = "method" /\ e.kind = "method" -> 2
      [] e.type = "method" /\ e.kind = "get"    -> 3
      [] e.type = "method" /\ e.kind = "set"    -> 4
      [] e.type = "property"                    -> 0
      [] e.type = "accessor"                    -> 1

TableKey(key) ==
    CASE key.t = "id"      -> <<key.name>>
      [] key.t = "private" -> <<key.name>>
      [] key.t = "string"  -> IF key.name = "#s" THEN <<"#", "s">> ELSE <<key.name>>
      [] key.t = "number"  -> IF key.name = "0x10" THEN <<"16">> ELSE <<key.name>>
      [] OTHER             -> <<"computed">>

KeyTableHolds(i) ==
    \A j \in 1..Len(EmittedDescriptors(i)) :
        LET d == EmittedDescriptors(i)[j]
            e == SourceTuples(i)[j].elem
        IN  /\ d.key = TableKey(e.key)
            /\ d.priv = (e.key.t = "private")

\* C16: the key string of every emitted member descriptor has no leading `#`: an identifier
\* gives its text, a private identifier its text without `#`, a string literal its value, a
\* numeric literal its string conversion, any other key "computed"; isPrivate is true iff
\* the key is a private identifier.
C16_KeyNoHash ==
    Done =>
        \A i \in rewritten :
            /\ KeyTableHolds(i)
            /\ \A j \in 1..Len(EmittedDescriptors(i)) : Head(EmittedDescriptors(i)[j].key) # "#"

\* C16, amended: the key string follows the table, and it has a leading `#` only when the
\* key is a string literal whose value starts with `#`.
C16_KeyTable ==
    Done =>
        \A i \in rewritten :
            /\ KeyTableHolds(i)
            /\ \A j \in 1..Len(EmittedDescriptors(i)) :
                  Head(EmittedDescriptors(i)[j].key) = "#" =>
                      /\ SourceTuples(i)[j].elem.key.t = "string"
                      /\ ~EmittedDescriptors(i)[j].priv

C16_Witness ==
    /\ Done
    /\ \E i \in rewritten :
          /\ \E j \in 1..Len(EmittedDescriptors(i)) :
                EmittedDescriptors(i)[j].key = <<"p">> /\ EmittedDescriptors(i)[j].priv
          /\ \E j \in 1..Len(EmittedDescriptors(i)) : EmittedDescriptors(i)[j].key = <<"16">>
          /\ \E j \in 1..Len(EmittedDescriptors(i)) : EmittedDescriptors(i)[j].key = <<"computed">>
          /\ \E j \in 1..Len(EmittedDescriptors(i)) : EmittedDescriptors(i)[j].key = <<"#", "s">>

\* C17: the emitted member descriptor array holds exactly one tuple per decorator of each
\* decorated member, members in source order and the decorators of one member in source
\* order; undecorated members give no tuple.
C17_OneTuplePerDecoratorInOrder ==
    Done =>
        \A i \in rewritten :
            /\ Len(EmittedDescriptors(i)) = Len(SourceTuples(i))
            /\ \A j \in 1..Len(EmittedDescriptors(i)) :
                  /\ EmittedDescriptors(i)[j].dec = generate_expression_code(SourceTuples(i)[j].dec)
                  /\ EmittedDescriptors(i)[j].key = TableKey(SourceTuples(i)[j].elem.key)

\* a class with an undecorated member between decorated ones and a member with two decorators
C17_Witness ==
    /\ Done
    /\ \E i \in rewritten :
          /\ \E m \in 1..Len(source[i].class.body) : source[i].class.body[m].decs = <<>>
          /\ \E m \in 1..Len(source[i].class.body) : Len(source[i].class.body[m].decs) = 2
          /\ Len(EmittedDescriptors(i)) >= 3
          /\ \E j \in 1..(Len(EmittedDescriptors(i)) - 1) :
                /\ EmittedDescriptors(i)[j].key = EmittedDescriptors(i)[j + 1].key
                /\ EmittedDescriptors(i)[j].dec = <<"d">>
                /\ EmittedDescriptors(i)[j + 1].dec = <<"f", "(", "a", ")">>

\* the decorators of the members of a class with the given static flag, last member first
\* and, for one member, last decorator (the one closest to the member) first
ReverseMemberDecorators(class, static) ==
    LET body == Reverse(class.body)
    IN  Flatten([m \in 1..Len(body) |->
                    IF ElementHasDecorators(body[m]) /\ body[m].static = static
                    THEN Reverse(extract_decorator_names(body[m].decs))
                    ELSE <<>>])

\* the order of decorator calls the specification gives for a class
Stage3Order(class) ==
    ReverseMemberDecorators(class, TRUE) \o ReverseMemberDecorators(class, FALSE)
    \o Reverse(collect_class_decorators(class))

\* C18: evaluating a rewritten class with the descriptor array the pass emits, the runtime
\* calls the decorators in the Stage 3 order: static members in reverse source order, then
\* instance members in reverse source order, then class decorators in reverse source order,
\* and for one member the innermost decorator first.
C18_InvocationOrder ==
    Done =>
        \A i \in rewritten :
            RunApplyDecs(PassStaticBlock(i).body[1]).called = Stage3Order(source[i].class)

\* what the runtime calls when the descriptor array is its member descriptor argument
CalledAsMembers(i) == applyDecs("this", <<>>, EmittedDescriptors(i)).called

\* the member part of the order of C18, for the descriptor array as the member argument
MemberOrderAsMembers ==
    Done =>
        \A i \in rewritten :
            CalledAsMembers(i) = ReverseMemberDecorators(source[i].class, TRUE)
                                 \o ReverseMemberDecorators(source[i].class, FALSE)

C20_KindTable ==
    Done =>
        \A i \in rewritten :
            LET descs  == EmittedDescriptors(i)
                tuples == SourceTuples(i)
            IN  /\ Len(descs) = Len(tuples)
                /\ \A j \in 1..Len(descs) :
                      /\ ~IsConstructor(tuples[j].elem) =>
                            BitAnd(7, descs[j].flags) = TableKind(tuples[j].elem)
                      /\ BitAnd(7, descs[j].flags) \in {KindField, KindAccessor, KindMethod,
                                                        KindGetter, KindSetter}
                      /\ BitAnd(7, descs[j].flags) # KindClass

\* one class with a decorated getter, setter, accessor, field and method
C20_Witness ==
    /\ Done
    /\ \E i \in rewritten :
          {BitAnd(7, EmittedDescriptors(i)[j].flags) : j \in 1..Len(EmittedDescriptors(i))}
              = {KindField, KindAccessor, KindMethod, KindGetter, KindSetter}

\* the statements whose class has a decorated constructor
DecoratedConstructorAt == {i \in 1..Len(source) : HasDecoratedConstructor(source[i].class)}

\* C21: a decorator on a constructor is reported in the errors list of the result and the
\* class that holds it is left as written (no static block, no constructor guard, its
\* decorators kept), while the other decorated classes of the program are still rewritten.
C21_DecoratedConstructorReported ==
    Returned /\ ret.kind = "ok" =>
        \A i \in DecoratedConstructorAt :
            /\ ret.errors # <<>>
            /\ ClassRegion(code, i) = ClassText(source[i].class)
            /\ \A j \in 1..Len(source) :
                  /\ j \notin DecoratedConstructorAt
                  /\ statement_has_decorators(source[j])
                  => /\ j \in rewritten
                     /\ Contains(ClassRegion(code, j), StaticBlockOpen)

\* a class with a decorated member that is not static and not a constructor
HasDecoratedNonStaticMember(class) ==
    \E m \in 1..Len(class.body) :
        /\ ElementHasDecorators(class.body[m])
        /\ ~IsConstructor(class.body[m])
        /\ ~class.body[m].static

\* C22: needsInstanceInit is true iff the class has a decorated non-static member of any
\* kind; a class whose decorated members are all static, or that has only class decorators,
\* gets no constructor added and no constructor changed: the constructors of its printed
\* class are those of the source and none holds the guard.
C22_NeedsInstanceInit ==
    Done =>
        \A i \in rewritten \ DecoratedConstructorAt :
            LET class  == source[i].class
                region == ClassRegion(code, i)
            IN  /\ NeedsInstanceInit(collect_decorator_metadata(class))
                      = HasDecoratedNonStaticMember(class)
                /\ ~HasDecoratedNonStaticMember(class) =>
                      /\ Count(region, <<"constructor(">>)
                            = Count(ClassText(class), <<"constructor(">>)
                      /\ ~Contains(region, GuardText)

\* the rewritten classes that need instance init and have no constructor in the source
SynthesizedAt ==
    {i \in rewritten :
        /\ NeedsInstanceInit(collect_decorator_metadata(source[i].class))
        /\ \A m \in 1..Len(source[i].class.body) : ~IsConstructor(source[i].class.body[m])}

\* C23: for a class that needs instance init and has no constructor the pass synthesizes
\* one whose body is `super();` (iff the class has a superclass) followed by
\* `if (_initProto) _initProto(this);`; the elements of the source body follow it in their
\* order, none removed, and the static block of the pass comes last.
C23_SynthesizedConstructor ==
    Done =>
        \A i \in SynthesizedAt :
            LET class == source[i].class
                body  == program[i].class.body
                n     == Len(class.body)
            IN  /\ Len(body) = n + 2
                /\ IsConstructor(body[1])
                /\ body[1].body = (IF class.super THEN <<PlainSuperStmt>> ELSE <<>>) \o <<GuardStmt>>
                /\ \A m \in 1..n : body[m + 1] = ClearElementDecorators(class.body[m])
                /\ IsPassStaticBlock(body[n + 2])
                /\ Cardinality({m \in 1..Len(body) : IsConstructor(body[m])}) = 1
                /\ Contains(ClassText(program[i].class),
                        <<"constructor(", ")", "{", "\n">>
                        \o (IF class.super THEN <<"super(", ")", ";", "\n">> ELSE <<>>)
                        \o GuardText)

\* a class with a superclass and one without, both given a constructor by the pass
C23_Witness ==
    /\ Done
    /\ \E i \in SynthesizedAt : source[i].class.super /\ Len(program[i].class.body[1].body) = 2
    /\ \E i \in SynthesizedAt : ~source[i].class.super /\ Len(source[i].class.body) >= 3

Undefined == "undefined"

\* the value a destructuring `[a, b] = e` binds to its k-th target
Destructured(e, k) == IF k <= Len(e) THEN e[k] ELSE Undefined

\* the pair [initProto, initClass], each undefined or a function
IsInitPair(e) ==
    /\ Len(e) = 2
    /\ e[1] \in {Undefined, "initProto"}
    /\ e[2] \in {Undefined, "initClass"}

\* the runtime called with the member descriptors of statement i as its member descriptors
RunAsMembers(i) == applyDecs("this", <<>>, EmittedDescriptors(i))

\* C24: for every combination of decorated members the runtime returns as `.e` the pair
\* [initProto, initClass], each undefined or a function, so the emitted destructuring
\* `[_initProto, _initClass] = ....e` binds _initProto to the runner of the instance
\* initializers or to undefined, never to an initializer of static members.
C24_InitPair ==
    Done =>
        \A i \in rewritten :
            /\ ~RunAsMembers(i).throws
            /\ IsInitPair(RunAsMembers(i).e)
            /\ Destructured(RunAsMembers(i).e, 1) \in {Undefined, "initProto"}
            /\ Destructured(RunApplyDecs(PassStaticBlock(i).body[1]).e, 1)
                  \in {Undefined, "initProto"}

\* a class declaration at the top level, bare, exported or exported as the default, that has
\* a class decorator or a decorated method definition, property definition or accessor
\* property
IsDecoratedTopLevelDeclaration(s) ==
    /\ s.form \in {"class", "export", "exportdefault"}
    /\ \/ Len(s.class.decs) > 0
       \/ \E m \in 1..Len(s.class.body) :
              /\ s.class.body[m].type \in {"method", "property", "accessor"}
              /\ Len(s.class.body[m].decs) > 0

\* C25: hasDecorators(program) is true iff some top-level statement is a decorated class
\* declaration (bare, exported or default-exported); decorated class expressions and
\* decorated classes below the top level never make it true: a program with none of the
\* former is returned as parsed, and any other program is traversed.
C25_HasDecorators ==
    /\ pc = "start" =>
          check_for_decorators(program)
              = (\E i \in 1..Len(program) : IsDecoratedTopLevelDeclaration(program[i]))
    /\ Done =>
          IF \E i \in 1..Len(source) : IsDecoratedTopLevelDeclaration(source[i])
          THEN idx = Len(source) + 1
          ELSE idx = 0 /\ rewritten = {} /\ code = source_text

\* a program whose only decorated classes are a class expression and a class in a block
C25_Witness ==
    /\ Done
    /\ \E i \in 1..Len(source) : source[i].form = "var" /\ SourceDecorators(source[i].class) # {}
    /\ \E i \in 1..Len(source) : source[i].form = "block" /\ SourceDecorators(source[i].class) # {}
    /\ ~check_for_decorators(source)
    /\ Contains(code, <<"@">>)
    /\ idx = 0

\* C26: the class rewrite is idempotent: applied again to the class it has just rewritten
\* it returns false and leaves the class as it is (no second static block, no second
\* guard), and it leaves the helpers-needed flag as it finds it.
C26_RewriteIdempotent ==
    pc = "inclass" =>
        \A i \in rewritten \cap {idx} :
            \A helpers \in BOOLEAN :
                LET once  == program[i].class
                    again == transform_class_with_decorators(once, helpers)
                IN  /\ ~again.changed
                    /\ again.class = once
                    /\ again.helpers_injected = helpers
                    /\ Count(ClassText(again.class), StaticBlockOpen)
                          = Count(ClassText(once), StaticBlockOpen)
                    /\ Count(ClassText(again.class), GuardText)
                          = Count(ClassText(once), GuardText)
                    /\ ~Contains(ClassText(once), <<"@">>)

\* a rewritten class that has the static block and the guard, with decorated methods,
\* fields and class decorators in the source
C26_Witness ==
    \E i \in rewritten \cap {idx} :
        /\ pc = "inclass"
        /\ Len(source[i].class.decs) > 0
        /\ \E m \in 1..Len(source[i].class.body) :
              source[i].class.body[m].type = "method" /\ source[i].class.body[m].decs # <<>>
        /\ \E m \in 1..Len(source[i].class.body) :
              source[i].class.body[m].type = "property" /\ source[i].class.body[m].decs # <<>>
        /\ Count(ClassText(program[i].class), StaticBlockOpen) = 1
        /\ Count(ClassText(program[i].class), GuardText) = 1
        /\ ~transform_class_with_decorators(program[i].class, FALSE).changed

\* C27: with two or more rewritten classes in a module, whenever an instance of a rewritten
\* class C is constructed, after C and any number of the later statements were evaluated,
\* the _initProto its constructor reads is the one C's own static block assigned.
C27_OwnInitProto ==
    Done =>
        \A i \in AssignsInitProto(source, rewritten) :
            NeedsInstanceInit(collect_decorator_metadata(source[i].class)) =>
                \A k \in i..Len(source) : InitProtoOwnerAfter(source, rewritten, k) = i

\* the options string is JSON text for the options object: an object whose `source_maps`,
\* if present, is given once and is a boolean; other keys may have any value
IsOptionsJson(s) ==
    /\ Len(s) >= 2
    /\ Head(s) = "{"
    /\ s[Len(s)] = "}"
    /\ JsonMembersOk(SubSeq(s, 2, Len(s) - 1))
    /\ Cardinality({i \in 1..(Len(s) - 2) : s[i] = "\"source_maps\"" /\ s[i + 1] = ":"}) <= 1
    /\ \A i \in 1..(Len(s) - 2) :
          s[i] = "\"source_maps\"" /\ s[i + 1] = ":" => s[i + 2] \in {"true", "false"}

\* C28: transform returns an error iff the options string is non-empty and is not valid
\* JSON for the options object; then the source was never parsed and no code was produced,
\* whatever the source is; in every other case it returns a success.
C28_ErrIffInvalidOptions ==
    Returned =>
        /\ ret.kind \in {"ok", "err"}
        /\ (ret.kind = "err") = (options # <<>> /\ ~IsOptionsJson(options))
        /\ ret.kind = "err" =>
              /\ program = <<>>
              /\ code = <<>>
              /\ idx = 0
              /\ rewritten = {}
              /\ opts = NoOptions

\* the error is returned for an options object whose source_maps is no boolean, with a
\* source text that would not have parsed
C28_Witness ==
    /\ Returned
    /\ ret.kind = "err"
    /\ Head(options) = "{"
    /\ parse_errors # <<>>
    /\ code = <<>>

\* the static block text that inject_static_blocks puts in for the class of statement i
InjectedBlock(i) == Formatting \o ClassTransformation(source[i].class).static_block_code

\* C29: the static block text of every recorded class transformation is inserted inside
\* the body of the class the record was created for, and each record modifies only its
\* own class: the printed class holds the block of its record once and no other inserted
\* block, also when class names share a prefix or a class is anonymous.
C29_BlockInOwnClass ==
    Done =>
        \A i \in rewritten :
            /\ Count(ClassRegion(code, i), InjectedBlock(i)) = 1
            /\ Count(ClassRegion(code, i), Formatting \o StaticBlockOpen) = 1

\* the code the k-th record is applied to
CodeBeforeRecord(k) == inject_static_blocks(Codegen(program), SubSeq(transformations, 1, k - 1))

\* the text from the closing brace of the class body that holds offset pos to the end
FromClassEnd(text, pos) == SubSeq(text, CloseOf(text, pos), Len(text))

\* C30: inject_constructor_init edits only the class it is called for: the code in front of
\* class_body_start, the closing brace of that class and all the text after it (later
\* classes, their constructors and their super calls) are the same before and after.
C30_ConstructorEditInClass ==
    Done =>
        \A k \in 1..Len(transformations) :
            LET s      == StaticBlockInjected(CodeBeforeRecord(k), transformations[k])
                after  == inject_constructor_init(s.text, s.class_body_start)
                tail   == FromClassEnd(s.text, s.class_body_start)
            IN  s.found /\ transformations[k].needs_instance_init =>
                    /\ Take(after, s.class_body_start) = Take(s.text, s.class_body_start)
                    /\ SubSeq(after, Len(after) - Len(tail) + 1, Len(after)) = tail
                    /\ Len(after) > Len(s.text)

====
